---- MODULE Spec2Model ----
(***************************************************************************)
(* Single-index loss functions with state (enn/losses/                    *)
(* single_index_with_state.py): the loss policies, the data-noise         *)
(* decorator and the index-averaging combinator.                          *)
(*                                                                         *)
(* Numbers.  Inputs (x, y, weights, logits) are integers.  Every value a  *)
(* mean can produce (losses, metrics, state leaves) is an exact rational  *)
(* <<n, d>> in lowest terms with d > 0.  log_softmax is computed in units *)
(* of ln 2 on logit rows whose softmax denominator is a power of two, so  *)
(* that it is exact.                                                       *)
(*                                                                         *)
(* Optional values are sequences of length at most one: None is <<>>.     *)
(***************************************************************************)
EXTENDS Integers, Sequences, FiniteSets, TLC

\* ------------------------------------------------------------- bounds
MaxIndexSamples == 3
MaxRows == 2

\* ---------------------------------------------------------- rationals
Abs(n) == IF n < 0 THEN 0 - n ELSE n

RECURSIVE GCD(_, _)
GCD(a, b) == IF b = 0 THEN a ELSE GCD(b, a % b)

Norm(n, d) ==
  LET g == GCD(Abs(n), d)
  IN  IF n >= 0 THEN <<n \div g, d \div g>> ELSE <<0 - (Abs(n) \div g), d \div g>>

RInt(n) == <<n, 1>>
RAdd(p, q) == Norm(p[1] * q[2] + q[1] * p[2], p[2] * q[2])
RSub(p, q) == Norm(p[1] * q[2] - q[1] * p[2], p[2] * q[2])
RScale(p, n) == Norm(p[1] * n, p[2])
RDivInt(p, n) == Norm(p[1], p[2] * n)

RECURSIVE RSum(_)
RSum(s) == IF s = <<>> THEN RInt(0) ELSE RAdd(Head(s), RSum(Tail(s)))

RECURSIVE ISum(_)
ISum(s) == IF s = <<>> THEN 0 ELSE Head(s) + ISum(Tail(s))

\* ------------------------------------------------------------ tensors
\* An array: its shape and its elements in row-major order.
Tensor(shape, data) == [shape |-> shape, data |-> data]

None == <<>>
Some(v) == <<v>>

\* chex.assert_shape's wildcard dimension (None in the source).
AnyDim == 0 - 1

\* A shape check that compares the rank and forgets the dimensions.
assert_rank_only(a, expected) == Len(a.shape) = Len(expected)

\* chex.assert_shape(a, expected)
assert_shape(a, expected) ==
  /\ Len(a.shape) = Len(expected)
  /\ \A i \in 1..Len(expected) : expected[i] = AnyDim \/ a.shape[i] = expected[i]

assert_equal_shape(a, b) == a.shape = b.shape

\* jnp.mean over all elements of an integer array: a rational scalar.
jnp_mean(a) == Tensor(<<>>, <<RDivInt(RInt(ISum(a.data)), Len(a.data))>>)

\* A default weight of zero where one was meant.
zeros_like(a) == Tensor(a.shape, [i \in 1..Len(a.data) |-> 0])

\* jnp.ones_like
ones_like(a) == Tensor(a.shape, [i \in 1..Len(a.data) |-> 1])

\* Elementwise product and difference of two equal-shaped integer arrays.
Times(a, b) == Tensor(a.shape, [i \in 1..Len(a.data) |-> a.data[i] * b.data[i]])
Minus(a, b) == Tensor(a.shape, [i \in 1..Len(a.data) |-> a.data[i] - b.data[i]])
Square(a) == Tensor(a.shape, [i \in 1..Len(a.data) |-> a.data[i] * a.data[i]])

\* Integer array -> rational array (the float result of integer arithmetic).
ToReal(a) == Tensor(a.shape, [i \in 1..Len(a.data) |-> RInt(a.data[i])])

\* a - b under numpy broadcasting, for shapes that are equal or where one
\* operand is a scalar; the shape of the result is the larger shape.
BroadcastMinus(a, b) ==
  IF a.shape = b.shape THEN Minus(a, b)
  ELSE IF a.shape = <<>>
       THEN Tensor(b.shape, [i \in 1..Len(b.data) |-> a.data[1] - b.data[i]])
       ELSE Tensor(a.shape, [i \in 1..Len(a.data) |-> a.data[i] - b.data[1]])

Broadcastable(a, b) == a.shape = b.shape \/ a.shape = <<>> \/ b.shape = <<>>

\* Row i (1-based) of a rank-2 array, as a sequence.
Row(a, i) == [j \in 1..a.shape[2] |-> a.data[(i - 1) * a.shape[2] + j]]

\* ------------------------------------------------------- data model
LabelValues == 0..2
NumLabels == Cardinality(LabelValues)

\* base_legacy.Batch.  Row r (1-based) has x = r - 1, data_index = r - 1 and
\* label (a + b * (r - 1)) % NumLabels.
Labels(rows, a, b) == [r \in 1..rows |-> (a + b * (r - 1)) % NumLabels]

YArray(rows, a, b, yshape) ==
  LET v == Labels(rows, a, b)
  IN  CASE yshape = "col"  -> Tensor(<<rows, 1>>, v)
        [] yshape = "two"  -> Tensor(<<rows, 2>>, [i \in 1..(2 * rows) |-> v[(i + 1) \div 2]])
        [] yshape = "flat" -> Tensor(<<rows>>, v)

WeightsArray(rows, wkind) ==
  CASE wkind = "none" -> None
    [] wkind = "ones" -> Some(Tensor(<<rows, 1>>, [r \in 1..rows |-> 1]))
    [] wkind = "ramp" -> Some(Tensor(<<rows, 1>>, [r \in 1..rows |-> r + 1]))
    [] wkind = "flat" -> Some(Tensor(<<rows>>, [r \in 1..rows |-> 1]))

MkBatch(rows, a, b, yshape, wkind) ==
  [x          |-> Tensor(<<rows, 1>>, [r \in 1..rows |-> r - 1]),
   y          |-> YArray(rows, a, b, yshape),
   data_index |-> Tensor(<<rows, 1>>, [r \in 1..rows |-> r - 1]),
   weights    |-> WeightsArray(rows, wkind)]

YShapes == {"col", "two", "flat"}
WeightKinds == {"none", "ones", "ramp", "flat"}

Batches ==
  { MkBatch(rows, a, b, ys, wk) :
      rows \in 1..MaxRows, a \in LabelValues, b \in 0..1,
      ys \in YShapes, wk \in WeightKinds }

\* Epistemic indices.
Indices == 0..2
NumIndices == Cardinality(Indices)

\* hk.State: an ordered mapping layer name -> (leaf name -> array), kept as
\* the sequence of its items.
EmptyState == <<>>
Scalar(q) == Tensor(<<>>, <<q>>)

CounterState == << [name |-> "bn", leaves |-> [counter |-> Scalar(RInt(0))]] >>

BatchNormState ==
  << [name |-> "bn",
      leaves |-> [counter |-> Scalar(RInt(1)),
                  mean    |-> Tensor(<<2>>, <<RInt(0), RInt(1)>>)]] >>

NoCounterState ==
  << [name |-> "ema", leaves |-> [mean |-> Tensor(<<2>>, <<RInt(0), RInt(1)>>)]] >>

States == {EmptyState, CounterState, BatchNormState, NoCounterState}

\* The tree structure of a state and the shape of every leaf.
Structure(state) ==
  [i \in 1..Len(state) |-> [name |-> state[i].name, keys |-> DOMAIN state[i].leaves]]

Shapes(state) ==
  [i \in 1..Len(state) |->
     [name |-> state[i].name,
      shapes |-> [k \in DOMAIN state[i].leaves |-> state[i].leaves[k].shape]]]

\* ------------------------------------------- injected collaborators
\* The epistemic network: what its head computes and how it treats state.
Nets == {"regress", "classify"}
StateModes == {"update", "grow", "drop", "fresh"}
\* The width of a classification head.
NetClasses == Cardinality(LabelValues)
ParamsSet == {2}

\* The state the network returns for one index.
\*   update: counter + 1, every other leaf shifted by the index (same shapes)
\*   grow:   every leaf gains one element (shapes change)
\*   drop:   the network returns no state
\*   fresh:  the network returns its own initial state whatever it was given
NewLeaf(mode, key, t, index) ==
  IF mode = "grow"
  THEN Tensor(<<Len(t.data) + 1>>, Append(t.data, RInt(index)))
  ELSE IF key = "counter"
       THEN Tensor(t.shape, [i \in 1..Len(t.data) |-> RAdd(t.data[i], RInt(1))])
       ELSE Tensor(t.shape, [i \in 1..Len(t.data) |-> RAdd(t.data[i], RInt(index))])

NewState(mode, state, index) ==
  CASE mode = "drop"  -> EmptyState
    [] mode = "fresh" -> CounterState
    [] OTHER ->
         [i \in 1..Len(state) |->
            [name   |-> state[i].name,
             leaves |-> [k \in DOMAIN state[i].leaves |->
                           NewLeaf(mode, k, state[i].leaves[k], index)]]]

\* The network head.  regress: one output per row, params * x + index.
\* classify: NetClasses logits per row, 1 at class (x + params + index) %
\* NetClasses and 0 elsewhere.
NetOut(net, params, x, index) ==
  LET rows == x.shape[1]
  IN  IF net = "regress"
      THEN Tensor(<<rows, 1>>, [r \in 1..rows |-> params * x.data[r] + index])
      ELSE Tensor(<<rows, NetClasses>>,
                  [i \in 1..(rows * NetClasses) |->
                     LET r == ((i - 1) \div NetClasses) + 1
                         j == (i - 1) % NetClasses
                     IN  IF j = (x.data[r] + params + index) % NetClasses THEN 1 ELSE 0])

\* enn.apply(params, state, x, index) -> (net_out, new_state)
apply(enn, params, state, x, index) ==
  [out   |-> [preds |-> NetOut(enn.net, params, x, index)],
   state |-> NewState(enn.stateMode, state, index)]

\* utils.parse_net_output: unwraps the network's output wrapper; an array
\* that is already plain is returned as it is.
parse_net_output(net_out) ==
  IF "preds" \in DOMAIN net_out THEN net_out.preds ELSE net_out

\* data_noise.DataNoiseBase instances: (batch, index) -> batch.
NoiseFns == {"identity", "shift_y"}

noise_fn(name, batch, index) ==
  IF name = "identity" THEN batch
  ELSE [batch EXCEPT !.y = Tensor(batch.y.shape,
          [i \in 1..Len(batch.y.data) |-> (batch.y.data[i] + index + 1) % NumLabels])]

\* utils.make_batch_indexer(enn.indexer, n)(key): n indices from one key.
batched_indexer(n, key) == [i \in 1..n |-> (key + 2 * (i - 1)) % NumIndices]

\* --------------------------------------------------- numeric helpers
RECURSIVE Pow2(_)
Pow2(e) == IF e = 0 THEN 1 ELSE 2 * Pow2(e - 1)

\* log2 of a power of two.
Log2(n) == CHOOSE e \in 0..n : Pow2(e) = n

\* jax.nn.log_softmax over the last axis, in units of ln 2.
log_softmax(logits) ==
  LET c == logits.shape[2]
      lse(r) == Log2(ISum([j \in 1..c |-> Pow2(Row(logits, r)[j])]))
  IN  Tensor(logits.shape,
             [i \in 1..Len(logits.data) |-> logits.data[i] - lse(((i - 1) \div c) + 1)])

\* jax.nn.one_hot(labels, num_classes) of a rank-1 label sequence.
one_hot(labels, num_classes) ==
  Tensor(<<Len(labels), num_classes>>,
         [i \in 1..(Len(labels) * num_classes) |->
            IF (i - 1) % num_classes = labels[((i - 1) \div num_classes) + 1] THEN 1 ELSE 0])

\* batch.y[:, 0]
FirstColumn(y) == [r \in 1..y.shape[1] |-> y.data[(r - 1) * y.shape[2] + 1]]

\* jnp.argmax(logits, axis=1): the first maximal position of each row, 0-based.
argmax(logits) ==
  [r \in 1..logits.shape[1] |->
     LET row == Row(logits, r)
     IN  (CHOOSE j \in 1..Len(row) :
            /\ \A m \in 1..Len(row) : row[m] <= row[j]
            /\ \A m \in 1..(j - 1) : row[m] < row[j]) - 1]

\* The integer square root of a perfect square (jnp.sqrt on the modelled domain).
sqrt(t) == CHOOSE r \in 0..t : r * r = t

\* ------------------------------------------------------ call results
\* What one evaluation did: the calls it made to injected functions, in
\* order, and how it ended: a LossOutputWithState ("ok"), the value None
\* ("None"), or the exception it raised.
EmptyDict == <<>>

CallOf(fn, batch, index) == [fn |-> fn, batch |-> batch, index |-> index]

Returned(loss, state, metrics, log) ==
  [status |-> "ok", loss |-> Some(loss), state |-> Some(state),
   metrics |-> Some(metrics), log |-> log]

Raised(exc, log) ==
  [status |-> exc, loss |-> None, state |-> None, metrics |-> None, log |-> log]

ReturnedNone(log) ==
  [status |-> "None", loss |-> None, state |-> None, metrics |-> None, log |-> log]

\* ---------------------------------------------------- loss policies
\* A policy object: its class and its fields.  noise is the noise_fn a
\* noisy_loss closure holds (None: the policy is not wrapped).
MkPolicy(cls, num_classes, temperature, input_dim, ll_shape, kl_shape, kl) ==
  [cls |-> cls, num_classes |-> num_classes, temperature |-> temperature,
   input_dim |-> input_dim, ll_shape |-> ll_shape, kl_shape |-> kl_shape,
   kl |-> kl, noise |-> None]

\* SingleIndexLossFnWithStateBase.__call__: the protocol's method has no
\* body but its docstring, so it returns None.
SingleIndexLossFnWithStateBase_call(self, enn, params, state, batch, index) ==
  ReturnedNone(<<>>)

L2LossWithState_call(self, enn, params, state, batch, index) ==
  IF ~assert_shape(batch.y, <<AnyDim, 1>>) THEN Raised("ShapeMismatch", <<>>)
  ELSE IF ~assert_shape(batch.data_index, <<AnyDim, 1>>) THEN Raised("ShapeMismatch", <<>>)
  ELSE
    LET r == apply(enn, params, state, batch.x, index)
        log == <<CallOf("apply", batch, index)>>
        net_out == parse_net_output(r.out)
    IN  IF ~assert_equal_shape(net_out, batch.y) THEN Raised("ShapeMismatch", log)
        ELSE
          LET sq_loss == Square(Minus(parse_net_output(net_out), batch.y))
              batch_weights == IF batch.weights = None
                               THEN ones_like(batch.data_index)
                               ELSE batch.weights[1]
          IN  IF ~assert_equal_shape(batch_weights, sq_loss)
              THEN Raised("ShapeMismatch", log)
              ELSE Returned(jnp_mean(Times(batch_weights, sq_loss)), r.state, EmptyDict, log)

\* -jnp.sum(labels * log_softmax, axis=1, keepdims=True): the product
\* broadcasts a single column against several.
SoftmaxXent(labels, lsm) ==
  LET cl == labels.shape[2]
      cn == lsm.shape[2]
      c  == IF cl > cn THEN cl ELSE cn
      term(r, j) == Row(labels, r)[IF cl = 1 THEN 1 ELSE j]
                    * Row(lsm, r)[IF cn = 1 THEN 1 ELSE j]
  IN  Tensor(<<labels.shape[1], 1>>,
             [r \in 1..labels.shape[1] |-> 0 - ISum([j \in 1..c |-> term(r, j)])])

\* xent_loss_with_state_custom_labels(labeller).single_loss, with
\* labeller = one_hot(., num_classes)
xent_single_loss(num_classes, enn, params, state, batch, index) ==
  IF ~assert_shape(batch.y, <<AnyDim, 1>>) THEN Raised("ShapeMismatch", <<>>)
  ELSE
    LET r == apply(enn, params, state, batch.x, index)
        log == <<CallOf("apply", batch, index)>>
        logits == parse_net_output(r.out)
        labels == one_hot(FirstColumn(batch.y), num_classes)
    IN  IF ~(labels.shape[2] = logits.shape[2] \/ labels.shape[2] = 1 \/ logits.shape[2] = 1)
        THEN Raised("TypeError", log)
        ELSE
          LET softmax_xent == SoftmaxXent(labels, log_softmax(logits))
              batch_weights == IF batch.weights = None
                               THEN ones_like(batch.y)
                               ELSE batch.weights[1]
          IN  IF ~assert_equal_shape(batch_weights, softmax_xent)
              THEN Raised("ShapeMismatch", log)
              ELSE LET loss == jnp_mean(Times(batch_weights, softmax_xent))
                   IN  Returned(loss, r.state, [loss |-> loss], log)

XentLossWithState_call(self, enn, params, state, batch, index) ==
  xent_single_loss(self.num_classes, enn, params, state, batch, index)

AccuracyErrorLossWithState_single_loss(self, enn, params, state, batch, index) ==
  IF ~assert_shape(batch.y, <<AnyDim, 1>>) THEN Raised("ShapeMismatch", <<>>)
  ELSE
    LET r == apply(enn, params, state, batch.x, index)
        log == <<CallOf("apply", batch, index)>>
        logits == parse_net_output(r.out)
        preds == argmax(logits)
        y0 == FirstColumn(batch.y)
        correct == Tensor(<<Len(preds)>>,
                          [i \in 1..Len(preds) |-> IF preds[i] = y0[i] THEN 1 ELSE 0])
        accuracy == jnp_mean(correct)
    IN  Returned(Scalar(RSub(RInt(1), accuracy.data[1])), r.state,
                 [accuracy |-> accuracy], log)

\* The injected likelihood and KL functions of ELBO and VAE.  The
\* likelihood is -|first output - first target| per row (summed when it is
\* a scalar), the KL is the constant self.kl; each has the shape the policy
\* was built with: "scalar" () or "rows" (rows,).
LLRow(out, batch, r) == 0 - Abs(Row(out.preds, r)[1] - batch.y.data[1])

log_likelihood_fn(self, out, batch) ==
  LET rows == out.preds.shape[1]
  IN  IF self.ll_shape = "scalar"
      THEN Tensor(<<>>, <<ISum([r \in 1..rows |-> LLRow(out, batch, r)])>>)
      ELSE Tensor(<<rows>>, [r \in 1..rows |-> LLRow(out, batch, r)])

model_prior_kl_fn(self, out, params, index) ==
  LET rows == out.preds.shape[1]
  IN  IF self.kl_shape = "scalar"
      THEN Tensor(<<>>, <<self.kl>>)
      ELSE Tensor(<<rows>>, [r \in 1..rows |-> self.kl])

latent_kl_fn(self, out) == model_prior_kl_fn(self, out, 0, 0)

\* Python truth value of an Optional number: None and 0 are false.
Truthy(opt) == opt # None /\ opt[1] # 0

ElboLossWithState_call(self, enn, params, state, batch, index) ==
  LET r == apply(enn, params, state, batch.x, index)
      log == <<CallOf("apply", batch, index)>>
      log_likelihood == log_likelihood_fn(self, r.out, batch)
      model_prior_kl == model_prior_kl_fn(self, r.out, params, index)
  IN  IF ~assert_equal_shape(log_likelihood, model_prior_kl)
      THEN Raised("ShapeMismatch", log)
      ELSE
        LET scaled == IF Truthy(self.temperature) /\ Truthy(self.input_dim)
                      THEN Tensor(model_prior_kl.shape,
                                  [i \in 1..Len(model_prior_kl.data) |->
                                     model_prior_kl.data[i]
                                     * (sqrt(self.temperature[1]) * self.input_dim[1])])
                      ELSE model_prior_kl
        IN  Returned(ToReal(Minus(scaled, log_likelihood)), r.state, EmptyDict, log)

VaeLossWithState_call(self, enn, params, state, batch, index) ==
  LET r == apply(enn, params, state, batch.x, index)
      log == <<CallOf("apply", batch, index)>>
      kl_term == latent_kl_fn(self, r.out)
      log_likelihood == log_likelihood_fn(self, r.out, batch)
  IN  IF ~Broadcastable(kl_term, log_likelihood) THEN Raised("TypeError", log)
      ELSE Returned(ToReal(BroadcastMinus(kl_term, log_likelihood)), r.state, EmptyDict, log)

\* The methods each class body defines.
Methods(cls) ==
  CASE cls = "L2LossWithState"            -> {"__call__"}
    [] cls = "XentLossWithState"          -> {"__init__", "__call__"}
    [] cls = "AccuracyErrorLossWithState" -> {"single_loss"}
    [] cls = "ElboLossWithState"          -> {"__call__"}
    [] cls = "VaeLossWithState"           -> {"__call__"}

\* policy(apply, params, state, batch, index) on an instance: Python looks
\* __call__ up in the instance's class and then in its base, the protocol.
InstanceCall(self, enn, params, state, batch, index) ==
  IF "__call__" \notin Methods(self.cls)
  THEN SingleIndexLossFnWithStateBase_call(self, enn, params, state, batch, index)
  ELSE CASE self.cls = "L2LossWithState" ->
              L2LossWithState_call(self, enn, params, state, batch, index)
         [] self.cls = "XentLossWithState" ->
              XentLossWithState_call(self, enn, params, state, batch, index)
         [] self.cls = "ElboLossWithState" ->
              ElboLossWithState_call(self, enn, params, state, batch, index)
         [] self.cls = "VaeLossWithState" ->
              VaeLossWithState_call(self, enn, params, state, batch, index)

\* A decorator that computes the noisy batch and passes the clean one on.
noisy_loss_clean_batch(self, enn, params, state, batch, index) ==
  LET r == InstanceCall([self EXCEPT !.noise = None], enn, params, state, batch, index)
  IN  [r EXCEPT !.log = <<CallOf("noise_fn", batch, index)>> \o r.log]

\* add_data_noise_to_loss_with_state(single_loss, noise_fn).noisy_loss
noisy_loss(self, enn, params, state, batch, index) ==
  LET noisy_batch == noise_fn(self.noise[1], batch, index)
      r == InstanceCall([self EXCEPT !.noise = None], enn, params, state, noisy_batch, index)
  IN  [r EXCEPT !.log = <<CallOf("noise_fn", batch, index)>> \o r.log]

\* Calling a single-index loss: a noisy_loss closure or a policy instance.
single_loss(policy, enn, params, state, batch, index) ==
  IF policy.noise # None
  THEN noisy_loss(policy, enn, params, state, batch, index)
  ELSE InstanceCall(policy, enn, params, state, batch, index)

\* ------------------------------------------------------ constructors
Constructed(p) == [status |-> "ok", policy |-> Some(p)]
ConstructionFailed(exc) == [status |-> exc, policy |-> None]

L2LossWithState_init == Constructed(MkPolicy("L2LossWithState", 0, None, None, "scalar", "scalar", 0))

\* XentLossWithState.__init__: assert num_classes > 1
XentLossWithState_init(num_classes) ==
  IF ~(num_classes > 1) THEN ConstructionFailed("AssertionError")
  ELSE Constructed(MkPolicy("XentLossWithState", num_classes, None, None, "scalar", "scalar", 0))

\* AccuracyErrorLossWithState: a dataclass, its generated __init__ stores the field.
AccuracyErrorLossWithState_init(num_classes) ==
  Constructed(MkPolicy("AccuracyErrorLossWithState", num_classes, None, None, "scalar", "scalar", 0))

ElboLossWithState_init(ll_shape, kl_shape, kl, temperature, input_dim) ==
  Constructed(MkPolicy("ElboLossWithState", 0, temperature, input_dim, ll_shape, kl_shape, kl))

VaeLossWithState_init(ll_shape, kl_shape, kl) ==
  Constructed(MkPolicy("VaeLossWithState", 0, None, None, ll_shape, kl_shape, kl))

add_data_noise_to_loss_with_state(policy, fn) == [policy EXCEPT !.noise = Some(fn)]

\* -------------------------------------------- index-averaging combinator
\* A reduction that sums over the index axis and forgets to divide.
batch_sum(xs) ==
  Tensor(xs[1].shape,
         [i \in 1..Len(xs[1].data) |-> RSum([j \in 1..Len(xs) |-> xs[j].data[i]])])

\* batch_mean = lambda x: jnp.mean(x, axis=0) on k stacked equal-shaped arrays.
batch_mean(xs) ==
  Tensor(xs[1].shape,
         [i \in 1..Len(xs[1].data) |->
            RDivInt(RSum([j \in 1..Len(xs) |-> xs[j].data[i]]), Len(xs))])

\* jnp.mean over all elements of a rational array.
RMean(a) == Scalar(RDivInt(RSum(a.data), Len(a.data)))

\* jax.tree_map(batch_mean, .) on the stacked states and the stacked metrics.
MeanState(states) ==
  [i \in 1..Len(states[1]) |->
     [name   |-> states[1][i].name,
      leaves |-> [key \in DOMAIN states[1][i].leaves |->
                    batch_mean([j \in 1..Len(states) |-> states[j][i].leaves[key]])]]]

MeanMetrics(ms) ==
  [key \in DOMAIN ms[1] |-> batch_mean([j \in 1..Len(ms) |-> ms[j][key]])]

\* An assignment that is lost.
SetItemDropped(dict, key, value) == dict

\* dict[key] = value
SetItem(dict, key, value) ==
  [x \in DOMAIN dict \cup {key} |-> IF x = key THEN value ELSE dict[x]]

\* jax.tree_multimap(f, new_state, state) needs two trees of one structure.
SameTreeStructure(new_state, state) == Structure(new_state) = Structure(state)

\* A state check that never fires.
StateShapesUnchecked(new_state, state) == TRUE

\* lambda x, y: chex.assert_equal_shape([x, y]) at every leaf.
StateShapesEqual(new_state, state) ==
  \A i \in 1..Len(state) : \A key \in DOMAIN state[i].leaves :
    assert_equal_shape(new_state[i].leaves[key], state[i].leaves[key])

\* loss_fn after the vmapped evaluation: outs holds the per-index outputs.
loss_fn_reduce(state, outs) ==
  LET k == Len(outs)
      failed == {i \in 1..k : outs[i].status \notin {"ok", "None"}}
  IN  IF failed # {} THEN Raised(outs[CHOOSE i \in failed : \A j \in failed : i <= j].status, <<>>)
      ELSE IF \E i \in 1..k : outs[i].status = "None" THEN Raised("TypeError", <<>>)
      ELSE
        LET mean_loss == batch_mean([i \in 1..k |-> outs[i].loss[1]])
            stacked == [i \in 1..k |-> outs[i].state[1]]
            new_state == IF stacked[1] # EmptyState THEN MeanState(stacked) ELSE stacked[1]
            mean_metrics == MeanMetrics([i \in 1..k |-> outs[i].metrics[1]])
        IN  IF stacked[1] # EmptyState /\ ~SameTreeStructure(new_state, state)
            THEN Raised("ValueError", <<>>)
            ELSE IF stacked[1] # EmptyState /\ ~StateShapesEqual(new_state, state)
            THEN Raised("ShapeMismatch", <<>>)
            ELSE IF Len(new_state) > 0
            THEN LET first_state_layer == new_state[1].leaves
                 IN  IF "counter" \notin DOMAIN first_state_layer
                     THEN Raised("KeyError", <<>>)
                     ELSE Returned(mean_loss, new_state,
                                   SetItem(mean_metrics, "state_counter",
                                           RMean(first_state_layer["counter"])),
                                   <<>>)
            ELSE Returned(mean_loss, new_state, mean_metrics, <<>>)

\* ------------------------------------------------------------- state
VARIABLES
  pc,                 \* where the program is
  policy,             \* the single-index loss built so far (None: none yet)
  num_index_samples,  \* average_single_index_loss_with_state's argument
  args,               \* the arguments of the call in progress (None: no call)
  indices,            \* batched_indexer(key)
  outs,               \* the per-index outputs of the vmapped single loss
  result              \* what the call returned or raised (None: not yet)

vars == <<pc, policy, num_index_samples, args, indices, outs, result>>

Enns == [net : Nets, stateMode : StateModes]

\* --------------------------------------------- evaluating one policy
KLs == {1, 2}
TensorShapes == {"scalar", "rows"}
Temperatures == {None, Some(0), Some(4)}
InputDims == {None, Some(0), Some(3)}
NumClassesArgs == {0, 1, 2, 3}

PolicyArgs == [enn : {e \in Enns : e.stateMode = "update"}, params : ParamsSet,
               state : {EmptyState, BatchNormState}, batch : Batches, index : Indices]

InitPolicy ==
  /\ pc = "start"
  /\ policy = None
  /\ num_index_samples = 0
  /\ args = None
  /\ indices = <<>>
  /\ outs = <<>>
  /\ result = None

Finish(c) ==
  /\ policy' = c.policy
  /\ pc' = IF c.status = "ok" THEN "constructed" ELSE "construction_failed"
  /\ result' = IF c.status = "ok" THEN None ELSE Some(Raised(c.status, <<>>))
  /\ UNCHANGED <<num_index_samples, args, indices, outs>>

ConstructL2 ==
  /\ pc = "start"
  /\ Finish(L2LossWithState_init)

ConstructXent ==
  /\ pc = "start"
  /\ \E n \in NumClassesArgs : Finish(XentLossWithState_init(n))

ConstructAccuracyError ==
  /\ pc = "start"
  /\ \E n \in NumClassesArgs : Finish(AccuracyErrorLossWithState_init(n))

ConstructElbo ==
  /\ pc = "start"
  /\ \E l \in TensorShapes, s \in {"scalar"}, k \in KLs, t \in Temperatures, d \in InputDims :
       Finish(ElboLossWithState_init(l, s, k, t, d))

ConstructVae ==
  /\ pc = "start"
  /\ \E l \in TensorShapes, s \in {"scalar"}, k \in KLs : Finish(VaeLossWithState_init(l, s, k))

AddDataNoise ==
  /\ pc = "constructed"
  /\ policy[1].noise = None
  /\ \E fn \in NoiseFns : policy' = Some(add_data_noise_to_loss_with_state(policy[1], fn))
  /\ UNCHANGED <<pc, num_index_samples, args, indices, outs, result>>

CallPolicy ==
  /\ pc = "constructed"
  /\ \E a \in PolicyArgs :
       /\ args' = Some(a)
       /\ result' = Some(single_loss(policy[1], a.enn, a.params, a.state, a.batch, a.index))
  /\ pc' = "called"
  /\ UNCHANGED <<policy, num_index_samples, indices, outs>>

\* policy.single_loss(apply, params, state, batch, index): the method the
\* accuracy class defines, called by its name.
CallSingleLossMethod ==
  /\ pc = "constructed"
  /\ policy[1].noise = None
  /\ "single_loss" \in Methods(policy[1].cls)
  /\ \E a \in PolicyArgs :
       /\ args' = Some(a)
       /\ result' = Some(AccuracyErrorLossWithState_single_loss(
                           policy[1], a.enn, a.params, a.state, a.batch, a.index))
  /\ pc' = "method_called"
  /\ UNCHANGED <<policy, num_index_samples, indices, outs>>

NextPolicy ==
  \/ ConstructL2
  \/ ConstructXent
  \/ ConstructAccuracyError
  \/ ConstructElbo
  \/ ConstructVae
  \/ AddDataNoise
  \/ CallPolicy
  \/ CallSingleLossMethod

SpecPolicy == InitPolicy /\ [][NextPolicy]_vars

\* ------------------------------------------ evaluating the combinator
Built(c) == c.policy[1]

LossPolicies ==
  { Built(L2LossWithState_init),
    Built(XentLossWithState_init(3)),
    Built(AccuracyErrorLossWithState_init(3)),
    Built(ElboLossWithState_init("scalar", "scalar", 1, Some(4), Some(3))),
    Built(VaeLossWithState_init("rows", "scalar", 1)),
    add_data_noise_to_loss_with_state(Built(L2LossWithState_init), "shift_y") }

LossBatches ==
  { MkBatch(rows, a, 1, "col", wk) : rows \in 1..MaxRows, a \in 0..1, wk \in {"none", "ramp"} }
  \cup { MkBatch(1, 0, 1, "two", "none") }

Keys == 0..1

LossArgs == [enn : Enns, params : ParamsSet, state : States, batch : LossBatches, key : Keys]

\* After average_single_index_loss_with_state(single_loss, num_index_samples).
Init ==
  /\ pc = "built"
  /\ policy \in {Some(p) : p \in LossPolicies}
  /\ num_index_samples \in 1..MaxIndexSamples
  /\ args = None
  /\ indices = <<>>
  /\ outs = <<>>
  /\ result = None

\* loss_fn is called: the batched indexer draws the indices.
LossFnCall ==
  /\ pc = "built"
  /\ \E a \in LossArgs :
       /\ args' = Some(a)
       /\ indices' = batched_indexer(num_index_samples, a.key)
  /\ pc' = "vmap"
  /\ UNCHANGED <<policy, num_index_samples, outs, result>>

\* jax.vmap(single_loss, in_axes=[None, None, None, None, 0]): one index.
VmapStep ==
  /\ pc = "vmap"
  /\ Len(outs) < num_index_samples
  /\ LET a == args[1]
     IN  outs' = Append(outs, single_loss(policy[1], a.enn, a.params, a.state, a.batch,
                                          indices[Len(outs) + 1]))
  /\ UNCHANGED <<pc, policy, num_index_samples, args, indices, result>>

\* The means over the index axis, the state check and the counter metric.
Reduce ==
  /\ pc = "vmap"
  /\ Len(outs) = num_index_samples
  /\ result' = Some(loss_fn_reduce(args[1].state, outs))
  /\ pc' = "done"
  /\ UNCHANGED <<policy, num_index_samples, args, indices, outs>>

Next == LossFnCall \/ VmapStep \/ Reduce

Spec == Init /\ [][Next]_vars

\* ============================================================ claims
\* What the single-index loss returns for the i-th sampled index of the
\* call in progress, evaluated on its own.
PerIndex(i) ==
  LET a == args[1]
  IN  single_loss(policy[1], a.enn, a.params, a.state, a.batch,
                  batched_indexer(num_index_samples, a.key)[i])

Returns == pc = "done" /\ result[1].status = "ok"

\* C1: whenever loss_fn returns, its loss has the shape of one per-index
\* loss and k times each of its elements is the sum of that element over the
\* k per-index losses, each obtained by evaluating the single-index loss
\* alone on one of the batched indexer's indices with the same apply,
\* params, state and batch: the loss is their arithmetic mean.
MeanReductionCorrect ==
  Returns =>
    LET k == num_index_samples
        loss == result[1].loss[1]
    IN  /\ \A i \in 1..k : PerIndex(i).status = "ok"
        /\ loss.shape = PerIndex(1).loss[1].shape
        /\ Len(loss.data) = Len(PerIndex(1).loss[1].data)
        /\ \A e \in 1..Len(loss.data) :
             RScale(loss.data[e], k) = RSum([i \in 1..k |-> PerIndex(i).loss[1].data[e]])

\* C1 witness: a mean over three indices whose losses are not all equal.
MeanReductionWitness ==
  /\ Returns
  /\ num_index_samples = 3
  /\ PerIndex(1).loss[1] # PerIndex(2).loss[1]
  /\ result[1].loss[1] # PerIndex(1).loss[1]

\* C2 as stated: with one index sample, whenever loss_fn returns, its loss
\* and its metrics are exactly those of the single-index loss for the one
\* sampled index, whatever the state.
SingleSampleIdentity ==
  (Returns /\ num_index_samples = 1) =>
    /\ result[1].loss = PerIndex(1).loss
    /\ result[1].metrics = PerIndex(1).metrics

\* C2 amended: with one index sample, whenever loss_fn returns, its loss is
\* the single-index loss's; its metrics are the single-index loss's when the
\* new state is empty, and otherwise they are those metrics with the one key
\* state_counter set to the mean of the counter leaf of the first layer of
\* the new state.
SingleSampleIdentityAmended ==
  (Returns /\ num_index_samples = 1) =>
    LET one == PerIndex(1)
        got == result[1].metrics[1]
        own == one.metrics[1]
    IN  /\ result[1].loss = one.loss
        /\ one.state[1] = EmptyState => got = own
        /\ one.state[1] # EmptyState =>
             /\ DOMAIN got = DOMAIN own \cup {"state_counter"}
             /\ \A key \in DOMAIN own \ {"state_counter"} : got[key] = own[key]
             /\ got["state_counter"] = RMean(one.state[1][1].leaves["counter"])

\* C2 witness: one index sample, a non-empty state, a policy with a metric
\* of its own.
SingleSampleWitness ==
  /\ Returns
  /\ num_index_samples = 1
  /\ PerIndex(1).state[1] # EmptyState
  /\ DOMAIN PerIndex(1).metrics[1] # {}
  /\ "state_counter" \in DOMAIN result[1].metrics[1]

\* The network keeps the structure and the shapes of the state it is given.
FixedShapeModel ==
  \A i \in 1..num_index_samples :
    PerIndex(i).status = "ok" =>
      /\ Structure(PerIndex(i).state[1]) = Structure(args[1].state)
      /\ Shapes(PerIndex(i).state[1]) = Shapes(args[1].state)

\* Some leaf of the per-index new state differs in shape from the input's.
LeafShapeDiffers ==
  LET new == PerIndex(1).state[1]
      old == args[1].state
  IN  /\ new # EmptyState
      /\ Structure(new) = Structure(old)
      /\ \E i \in 1..Len(old) : \E key \in DOMAIN old[i].leaves :
           new[i].leaves[key].shape # old[i].leaves[key].shape

\* C3: for a network whose state has a fixed shape, whenever loss_fn returns
\* the returned state has the keys and the leaf shapes of the input state and
\* k times each leaf element is the sum of that element over the k per-index
\* new states; and when a leaf of the averaged state differs in shape from
\* the input's, the call raises a shape mismatch and returns nothing.
StateShapeInvariance ==
  /\ (Returns /\ FixedShapeModel) =>
       LET new == result[1].state[1]
           old == args[1].state
           k == num_index_samples
       IN  /\ Len(new) = Len(old)
           /\ \A i \in 1..Len(old) :
                /\ new[i].name = old[i].name
                /\ DOMAIN new[i].leaves = DOMAIN old[i].leaves
                /\ \A key \in DOMAIN old[i].leaves :
                     /\ new[i].leaves[key].shape = old[i].leaves[key].shape
                     /\ Len(new[i].leaves[key].data) = Len(old[i].leaves[key].data)
                     /\ \A e \in 1..Len(old[i].leaves[key].data) :
                          RScale(new[i].leaves[key].data[e], k)
                            = RSum([j \in 1..k |-> PerIndex(j).state[1][i].leaves[key].data[e]])
  /\ (pc = "done" /\ PerIndex(1).status = "ok" /\ LeafShapeDiffers) =>
       /\ result[1].status = "ShapeMismatch"
       /\ result[1].state = None

\* C3 witness: three indices, a two-leaf state averaged and returned.
StateShapeWitness ==
  /\ Returns
  /\ FixedShapeModel
  /\ num_index_samples = 3
  /\ args[1].state = BatchNormState
  /\ result[1].state[1] # PerIndex(1).state[1]

\* ------------------------------------------- claims on single policies
Called == pc = "called"

\* The policy instance under any noise decorator.
Inner == [policy[1] EXCEPT !.noise = None]

Plain(cls) == Called /\ policy[1].cls = cls /\ policy[1].noise = None

\* The network's output and new state for the call in progress.
Applied == apply(args[1].enn, args[1].params, args[1].state, args[1].batch.x, args[1].index)

RowsOf(batch) == batch.x.shape[1]

\* y is rank 2 with one column.
ColumnTarget(batch) == Len(batch.y.shape) = 2 /\ batch.y.shape[2] = 1

\* The number of rows whose first maximal logit is at the row's label.
CorrectRows ==
  LET logits == Applied.out.preds
      a == args[1]
  IN  Cardinality({r \in 1..RowsOf(a.batch) :
        /\ \A j \in 1..logits.shape[2] : Row(logits, r)[j] <= Row(logits, r)[a.batch.y.data[r] + 1]
        /\ \A j \in 1..a.batch.y.data[r] : Row(logits, r)[j] < Row(logits, r)[a.batch.y.data[r] + 1]})

\* C4: an AccuracyErrorLossWithState instance called as
\* policy(apply, params, state, batch, index) on a rows x 1 target returns
\* (1 - accuracy, (new_state, {'accuracy': accuracy})), accuracy being the
\* fraction of rows whose argmax prediction is the label.
AccuracyErrorContract ==
  (/\ Plain("AccuracyErrorLossWithState")
   /\ ColumnTarget(args[1].batch)
   /\ args[1].enn.net = "classify") =>
    LET accuracy == Scalar(Norm(CorrectRows, RowsOf(args[1].batch)))
    IN  /\ result[1].status = "ok"
        /\ result[1].loss = Some(Scalar(RSub(RInt(1), accuracy.data[1])))
        /\ result[1].state = Some(Applied.state)
        /\ result[1].metrics = Some([accuracy |-> accuracy])

\* The log-likelihood the ELBO policy is given for the call in progress.
ElboLL == log_likelihood_fn(policy[1], Applied.out, args[1].batch).data[1]

\* C5: for an ELBO policy with a scalar likelihood ll and a KL function
\* returning the constant k, the loss is k * sqrt(T) * D - ll whenever
\* temperature = T and input_dim = D are both set, whatever their values,
\* and k - ll whenever either is unset.
ElboTemperatureScaling ==
  (/\ Plain("ElboLossWithState")
   /\ policy[1].ll_shape = "scalar"
   /\ policy[1].kl_shape = "scalar") =>
    LET k == policy[1].kl
        T == policy[1].temperature
        D == policy[1].input_dim
    IN  /\ result[1].status = "ok"
        /\ result[1].loss[1].data[1] =
             IF T # None /\ D # None
             THEN RInt(k * sqrt(T[1]) * D[1] - ElboLL)
             ELSE RInt(k - ElboLL)

\* C6: an L2 or cross-entropy evaluation of a batch whose y is not rank 2
\* with one column raises a shape mismatch, has not called apply, and
\* produces no loss, no state and no metrics.
ShapeViolationRaisesBeforeApply ==
  (/\ Called
   /\ policy[1].cls \in {"L2LossWithState", "XentLossWithState"}
   /\ ~ColumnTarget(args[1].batch)) =>
    /\ result[1].status = "ShapeMismatch"
    /\ \A i \in 1..Len(result[1].log) : result[1].log[i].fn # "apply"
    /\ result[1].loss = None
    /\ result[1].state = None
    /\ result[1].metrics = None

\* C6 witness: a two-row batch with a rows x 2 target given to the L2 policy.
ShapeViolationWitness ==
  /\ Plain("L2LossWithState")
  /\ args[1].batch.y.shape = <<2, 2>>
  /\ result[1].status = "ShapeMismatch"

\* C7: a policy wrapped by add_data_noise_to_loss_with_state calls noise_fn
\* exactly once, first, with (batch, index), and then does and returns
\* exactly what the wrapped policy does and returns on (apply, params,
\* state, noise_fn(batch, index), index); with the identity noise function
\* that is what the wrapped policy returns on the batch itself.
NoiseDecoratorDelegates ==
  (Called /\ policy[1].noise # None) =>
    LET a == args[1]
        r == result[1]
        fn == policy[1].noise[1]
        wrapped == InstanceCall(Inner, a.enn, a.params, a.state,
                                noise_fn(fn, a.batch, a.index), a.index)
        unwrapped == InstanceCall(Inner, a.enn, a.params, a.state, a.batch, a.index)
    IN  /\ Cardinality({i \in 1..Len(r.log) : r.log[i].fn = "noise_fn"}) = 1
        /\ r.log[1] = CallOf("noise_fn", a.batch, a.index)
        /\ Tail(r.log) = wrapped.log
        /\ <<r.status, r.loss, r.state, r.metrics>>
             = <<wrapped.status, wrapped.loss, wrapped.state, wrapped.metrics>>
        /\ fn = "identity" =>
             <<r.status, r.loss, r.state, r.metrics>>
               = <<unwrapped.status, unwrapped.loss, unwrapped.state, unwrapped.metrics>>

\* C7 witness: a wrapped L2 policy whose noise changes the loss.
NoiseDecoratorWitness ==
  /\ Called
  /\ policy[1].noise = Some("shift_y")
  /\ policy[1].cls = "L2LossWithState"
  /\ result[1].status = "ok"
  /\ result[1].loss # InstanceCall(Inner, args[1].enn, args[1].params, args[1].state,
                                   args[1].batch, args[1].index).loss

\* The per-row losses of the call in progress, before weighting.
RowLosses ==
  LET a == args[1]
      net_out == Applied.out.preds
  IN  IF policy[1].cls = "L2LossWithState"
      THEN [r \in 1..RowsOf(a.batch) |->
              (net_out.data[r] - a.batch.y.data[r]) * (net_out.data[r] - a.batch.y.data[r])]
      ELSE [r \in 1..RowsOf(a.batch) |->
              0 - ISum([j \in 1..net_out.shape[2] |->
                     IF net_out.shape[2] = 1
                     THEN (IF a.batch.y.data[r] < policy[1].num_classes THEN 1 ELSE 0)
                            * log_softmax(net_out).data[r]
                     ELSE (IF j - 1 = a.batch.y.data[r] THEN 1 ELSE 0)
                            * Row(log_softmax(net_out), r)[j]])]

OnesColumn(rows) == Tensor(<<rows, 1>>, [r \in 1..rows |-> 1])

\* C8: the L2 and cross-entropy losses with weights absent are what they
\* are with an explicit all-ones rows x 1 weight vector, and the weighted
\* per-row losses are summed and divided by the number of rows.
WeightNeutrality ==
  (/\ Called
   /\ policy[1].noise = None
   /\ policy[1].cls \in {"L2LossWithState", "XentLossWithState"}) =>
    LET a == args[1]
        r == result[1]
        rows == RowsOf(a.batch)
        ones == single_loss(policy[1], a.enn, a.params, a.state,
                            [a.batch EXCEPT !.weights = Some(OnesColumn(rows))], a.index)
        w == IF a.batch.weights = None THEN OnesColumn(rows) ELSE a.batch.weights[1]
    IN  /\ a.batch.weights = None =>
             <<r.status, r.loss, r.state, r.metrics>>
               = <<ones.status, ones.loss, ones.state, ones.metrics>>
        /\ r.status = "ok" =>
             RScale(r.loss[1].data[1], rows)
               = RInt(ISum([i \in 1..rows |-> w.data[i] * RowLosses[i]]))

\* C8 witness: a two-row batch without weights and with a non-zero L2 loss.
WeightNeutralityWitness ==
  /\ Plain("L2LossWithState")
  /\ args[1].batch.weights = None
  /\ RowsOf(args[1].batch) = 2
  /\ result[1].status = "ok"
  /\ result[1].loss[1].data[1] # RInt(0)

\* C9: no XentLossWithState and no AccuracyErrorLossWithState instance has
\* num_classes <= 1: constructing one fails.
NumClassesValidated ==
  (policy # None /\ policy[1].cls \in {"XentLossWithState", "AccuracyErrorLossWithState"}) =>
    policy[1].num_classes > 1

\* C10: an ELBO or VAE evaluation whose log-likelihood and KL results
\* differ in shape raises a shape mismatch and returns no loss.
LikelihoodKLShapesChecked ==
  (/\ Called
   /\ policy[1].cls \in {"ElboLossWithState", "VaeLossWithState"}
   /\ policy[1].ll_shape # policy[1].kl_shape) =>
    /\ result[1].status = "ShapeMismatch"
    /\ result[1].loss = None
====
